---- MODULE Spec2Model ----
(***************************************************************************)
(* A model of utils/process-stats-dir.py: the job-record parser            *)
(* (load_stats_dir), the merge engine (JobStats.merged_with,               *)
(* merge_all_jobstats), the baseline store (update_epoch_value,            *)
(* read_stats_dict_from_csv, set_csv_baseline) and the comparator          *)
(* (diff_and_pct, compare_to_csv_baseline).                                *)
(*                                                                         *)
(* Strings.  A stat name is the record                                     *)
(*     [pre, tool, kind, aux, suf]                                         *)
(* standing for the string                                                 *)
(*     pre ++ tool ++ kind ++ "." ++ join(aux, "-") ++ "." ++ suf          *)
(* (the last "." is absent when suf = ""); the pieces of aux hold no "-".  *)
(* A file name is [fields, ext] standing for join(fields, "-") ++ "." ++   *)
(* ext.  Regular expressions are evaluated on these pieces.                *)
(*                                                                         *)
(* Numbers.  A JSON number is [int |-> i] (an integer literal) or          *)
(* [nanos |-> n] (the fraction n / 10^9).  Percentages (Python floats      *)
(* rounded to two decimals) are integers counting hundredths of a percent. *)
(***************************************************************************)
EXTENDS Integers, Sequences, FiniteSets, TLC

VARIABLES
    mode,       \* which operation ran last ("init" before any)
    dir,        \* the files os.walk finds in the stats dir, in walk order
    jobstats,   \* the list of JobStats records (load_stats_dir's result)
    merged,     \* the last result of a merge: a JobStats, or None
    jobs,       \* the records a merge started from (kept for comparison)
    csvfile,    \* the baseline file: Absent, or File(rows)
    before,     \* the dict the last run read from the baseline file, or NoDict
    d,          \* the name -> (epoch, value) dict of update_epoch_value
    call,       \* the arguments and the prior entry of the last call
    ret,        \* what the last operation returned
    out,        \* the rows the last operation wrote to args.output
    status      \* "ok", or the exception that ended the last operation

vars == <<mode, dir, jobstats, merged, jobs, csvfile, before, d, call, ret, out, status>>

None == [none |-> TRUE]
EmptyDict == [x \in {} |-> 0]

\* The baseline file: whether it exists, and its rows <<epoch, name, value>>.
Absent == [exists |-> FALSE, rows |-> <<>>]
File(rows) == [exists |-> TRUE, rows |-> rows]

\* An optional dict: NoDict stands for None.
NoDict == [some |-> FALSE, dict |-> EmptyDict]
SomeDict(dict) == [some |-> TRUE, dict |-> dict]

----------------------------------------------------------------------------
(* Generic helpers *)

Min(a, b) == IF a <= b THEN a ELSE b
Max(a, b) == IF a >= b THEN a ELSE b
Abs(x) == IF x < 0 THEN -x ELSE x

Range(s) == {s[i] : i \in DOMAIN s}

\* The sequences of length <= n over S.
SeqsUpTo(S, n) == UNION {[1..k -> S] : k \in 0..n}

\* The orders (sequences without repetition) in which a set can be iterated.
Orders(S) == {o \in [1..Cardinality(S) -> S] : Range(o) = S}

----------------------------------------------------------------------------
(* Stat names and file names *)

Name(pre, tool, kind, aux, suf) ==
    [pre |-> pre, tool |-> tool, kind |-> kind, aux |-> aux, suf |-> suf]

AuxA == <<"ModA", "in.swift", "x86_64", "obj", "Onone">>
AuxB == <<"ModB", "in.swift", "x86_64", "obj", "Onone">>

\* time.swift-frontend.ModA-in.swift-x86_64-obj-Onone.wall
WallSwiftA == Name("time.", "swift-", "frontend", AuxA, "wall")
\* time.swift-frontend.ModB-in.swift-x86_64-obj-Onone.wall
WallSwiftB == Name("time.", "swift-", "frontend", AuxB, "wall")
\* time.frontend.ModA-in.swift-x86_64-obj-Onone.wall
WallPlainA == Name("time.", "", "frontend", AuxA, "wall")
\* time.swift-frontend.ModA-in.swift-x86_64-obj-Onone.user
UserSwiftA == Name("time.", "swift-", "frontend", AuxA, "user")
\* Frontend.NumInstructions, Driver.NumDriverJobsRun, Driver.NumDriverJobsSkipped
NumInstructions == Name("", "", "Frontend", <<"NumInstructions">>, "")
NumDriverJobsRun == Name("", "", "Driver", <<"NumDriverJobsRun">>, "")
NumDriverJobsSkipped == Name("", "", "Driver", <<"NumDriverJobsSkipped">>, "")

\* The strings of the model made of word characters only (\w+), and the
\* strings made of digits only (\d+) with the integer int() reads from each.
WordStrings == {"stats", "swift", "clang", "frontend", "driver", "ModA", "ModB",
                "x86_64", "obj", "Onone", "notes", "extra"}
IntOf == ("1000" :> 1000) @@ ("2000" :> 2000) @@ ("4242" :> 4242) @@ ("77" :> 77)
IsDigits(s) == s \in DOMAIN IntOf
IsWord(s) == s \in WordStrings \/ IsDigits(s)

\* k.startswith("time.")
StartsWithTime(k) == k.pre = "time."

\* auxpat: five non-empty pieces without "-", joined by "-".
MatchesAuxpat(aux) == Len(aux) = 5 /\ \A i \in 1..5 : aux[i] # ""

\* fpat: ^stats-(\d+)-swift-(\w+)-<auxpat>-(\d+)(-.*)?.json$
MatchesFpat(f) ==
    /\ Len(f.fields) >= 10
    /\ f.fields[1] = "stats"
    /\ IsDigits(f.fields[2])
    /\ f.fields[3] = "swift"
    /\ IsWord(f.fields[4])
    /\ MatchesAuxpat(SubSeq(f.fields, 5, 9))
    /\ IsDigits(f.fields[10])
    /\ f.ext = "json"

\* A variant of the pattern that leaves out the tool prefix "swift-".
MatchesPatNoTool(jobkind, k) ==
    /\ k.pre = "time."
    /\ k.tool = ""
    /\ k.kind = jobkind
    /\ MatchesAuxpat(k.aux)
    /\ k.suf = "wall"

\* pat: time\.swift-<jobkind>\.<auxpat>\.wall$
MatchesPat(jobkind, k) ==
    /\ k.pre = "time."
    /\ k.tool = "swift-"
    /\ k.kind = jobkind
    /\ MatchesAuxpat(k.aux)
    /\ k.suf = "wall"

----------------------------------------------------------------------------
(* JSON numbers and the job-record parser *)

JsonInt(i) == [lit |-> "int", n |-> i]
JsonFloat(nanos) == [lit |-> "float", n |-> nanos]

UsecPerSec == 1000000

\* int(x / y) for y > 0: the quotient truncated toward zero.
TruncDiv(x, y) == IF x >= 0 THEN x \div y ELSE -((-x) \div y)

\* int(1000000.0 * float(v)); a float literal counts 10^-9, that is
\* thousandths of a microsecond.
ToUsec(v) ==
    IF v.lit = "int" THEN UsecPerSec * v.n ELSE TruncDiv(v.n, 1000)

JobStats(jobkind, jobid, module, start_usec, dur_usec, jobargs, stats) ==
    [jobkind |-> jobkind, jobid |-> jobid, module |-> module,
     start_usec |-> start_usec, dur_usec |-> dur_usec,
     jobargs |-> jobargs, stats |-> stats]

DefaultDur == 1

\* The loop over j.items(), taken in the order o of the dict's keys. A value
\* of a key outside "time." is stored as given; the model gives those keys
\* integer literals only.
RECURSIVE ScanItems(_, _, _, _)
ScanItems(j, o, jobkind, acc) ==
    IF o = <<>> THEN acc
    ELSE LET k == Head(o)
             v == IF StartsWithTime(k) THEN ToUsec(j[k]) ELSE j[k].n
         IN  ScanItems(j, Tail(o), jobkind,
                 [stats    |-> [x \in DOMAIN acc.stats \cup {k} |->
                                   IF x = k THEN v ELSE acc.stats[x]],
                  dur_usec |-> IF MatchesPat(jobkind, k) THEN v
                               ELSE acc.dur_usec])

\* The body of the loop over files, for a file f that matches fpat.
LoadFile(f, o) ==
    LET jobkind == f.fields[4]
        r == ScanItems(f.body, o, jobkind,
                       [stats |-> EmptyDict, dur_usec |-> DefaultDur])
    IN  JobStats(jobkind, IntOf[f.fields[10]], f.fields[5],
                 IntOf[f.fields[2]], r.dur_usec,
                 SubSeq(f.fields, 6, 9), r.stats)

\* load_stats_dir: every list the walk can return, one for each order in
\* which the JSON dicts may be iterated.
RECURSIVE load_stats_dir(_)
load_stats_dir(files) ==
    IF files = <<>> THEN {<<>>}
    ELSE LET f == Head(files)
             rest == load_stats_dir(Tail(files))
         IN  IF MatchesFpat(f)
             THEN {<<LoadFile(f, o)>> \o r :
                      o \in Orders(DOMAIN f.body), r \in rest}
             ELSE rest

----------------------------------------------------------------------------
(* The merge engine *)

RandMax == 1000000000
\* The outcomes of random.randint(0, 1000000000) the model draws.
RandomIds == {0, RandMax}

Merged == "<merged>"

\* self.stats.items() + other.stats.items(), summed per key from 0.0.
MergedStats(a, b) ==
    [k \in DOMAIN a \cup DOMAIN b |->
        (IF k \in DOMAIN a THEN a[k] ELSE 0) + (IF k \in DOMAIN b THEN b[k] ELSE 0)]

\* A variant of merged_with whose duration is the sum of the two durations.
merged_with_sum_dur(self, other, id) ==
    JobStats(IF other.jobkind # self.jobkind THEN Merged ELSE self.jobkind,
             id,
             IF other.module # self.module THEN Merged ELSE self.module,
             Min(self.start_usec, other.start_usec),
             self.dur_usec + other.dur_usec,
             self.jobargs \o other.jobargs,
             MergedStats(self.stats, other.stats))

\* JobStats.merged_with; id is the outcome of random.randint.
merged_with(self, other, id) ==
    LET merged_kind   == IF other.jobkind # self.jobkind THEN Merged
                         ELSE self.jobkind
        merged_module == IF other.module # self.module THEN Merged
                         ELSE self.module
        merged_start  == Min(self.start_usec, other.start_usec)
        merged_end    == Max(self.start_usec + self.dur_usec,
                             other.start_usec + other.dur_usec)
        merged_dur    == merged_end - merged_start
    IN  JobStats(merged_kind, id, merged_module, merged_start, merged_dur,
                 self.jobargs \o other.jobargs,
                 MergedStats(self.stats, other.stats))

\* The loop of merge_all_jobstats from accumulator m; ids[i] is the random
\* id drawn while the i-th record of js is visited.
RECURSIVE MergeLoop(_, _, _)
MergeLoop(m, js, ids) ==
    IF js = <<>> THEN m
    ELSE MergeLoop(IF m = None THEN Head(js)
                   ELSE merged_with(m, Head(js), Head(ids)),
                   Tail(js), Tail(ids))

merge_all_jobstats(js, ids) == MergeLoop(None, js, ids)

\* Every result merge_all_jobstats can return for js.
MergeOutcomes(js) ==
    {merge_all_jobstats(js, ids) : ids \in [1..Len(js) -> RandomIds]}

----------------------------------------------------------------------------
(* Specification SpecMerge: merging lists of job records *)

MaxStart == 1
MaxDur == 1

JobTemplates ==
    { [jobkind |-> "frontend", module |-> "ModA", jobargs |-> Tail(AuxA),
       stats |-> (WallSwiftA :> 2000)],
      [jobkind |-> "frontend", module |-> "ModB", jobargs |-> Tail(AuxB),
       stats |-> (WallSwiftA :> 1) @@ (NumInstructions :> 7)],
      [jobkind |-> "driver", module |-> "ModA", jobargs |-> Tail(AuxA),
       stats |-> (NumInstructions :> 3)] }

MergeRecords ==
    {JobStats(t.jobkind, 4242, t.module, s, u, t.jobargs, t.stats) :
        t \in JobTemplates, s \in 0..MaxStart, u \in 0..MaxDur}

Idle(fs, js, file) ==
    /\ mode = "init"
    /\ dir = fs
    /\ jobstats = js
    /\ jobs = js
    /\ merged = None
    /\ csvfile = file
    /\ before = NoDict
    /\ d = EmptyDict
    /\ call = None
    /\ ret = None
    /\ out = <<>>
    /\ status = "ok"

InitMerge == \E js \in SeqsUpTo(MergeRecords, 3) : Idle(<<>>, js, Absent)

\* merge_all_jobstats(jobstats)
MergeAllJobstats ==
    /\ mode \in {"init", "merged_with", "load"}
    /\ \E m \in MergeOutcomes(jobstats) : merged' = m
    /\ mode' = "merge_all"
    /\ UNCHANGED <<dir, jobstats, jobs, csvfile, before, d, call, ret, out, status>>

\* jobstats[i] = jobstats[i].merged_with(jobstats[j]); del jobstats[j]
MergedWith ==
    /\ mode \in {"init", "merged_with"}
    /\ \E i, j \in 1..Len(jobstats), id \in RandomIds :
          /\ i # j
          /\ LET r == merged_with(jobstats[i], jobstats[j], id)
                 js == [jobstats EXCEPT ![i] = r]
             IN  jobstats' = SubSeq(js, 1, j - 1) \o SubSeq(js, j + 1, Len(js))
    /\ mode' = "merged_with"
    /\ UNCHANGED <<dir, merged, jobs, csvfile, before, d, call, ret, out, status>>

NextMerge == MergeAllJobstats \/ MergedWith

SpecMerge == InitMerge /\ [][NextMerge]_vars

\* The sum of stat k over the records of js, at the indices in I, that hold it.
RECURSIVE StatTotal(_, _, _)
StatTotal(js, I, k) ==
    IF I = {} THEN 0
    ELSE LET i == CHOOSE x \in I : TRUE
         IN  (IF k \in DOMAIN js[i].stats THEN js[i].stats[k] ELSE 0)
             + StatTotal(js, I \ {i}, k)

StatKeys(js) == UNION {DOMAIN js[i].stats : i \in DOMAIN js}
MinStart(js) ==
    CHOOSE s \in {js[i].start_usec : i \in DOMAIN js} :
        \A i \in DOMAIN js : s <= js[i].start_usec
MaxEnd(js) ==
    CHOOSE e \in {js[i].start_usec + js[i].dur_usec : i \in DOMAIN js} :
        \A i \in DOMAIN js : e >= js[i].start_usec + js[i].dur_usec

\* Record r carries the totals of the records js, whatever their order.
CarriesTotals(r, js) ==
    /\ r.stats = [k \in StatKeys(js) |-> StatTotal(js, DOMAIN js, k)]
    /\ r.start_usec = MinStart(js)
    /\ r.dur_usec = MaxEnd(js) - MinStart(js)

----------------------------------------------------------------------------
(* Specification SpecLoad: loading a stats dir *)

MaxFiles == 1

\* stats-1000-swift-frontend-ModA-in.swift-x86_64-obj-Onone-4242.json
FileNameA ==
    [fields |-> <<"stats", "1000", "swift", "frontend">> \o AuxA \o <<"4242">>,
     ext |-> "json"]
\* stats-2000-swift-frontend-ModB-in.swift-x86_64-obj-Onone-77.json
FileNameB ==
    [fields |-> <<"stats", "2000", "swift", "frontend">> \o AuxB \o <<"77">>,
     ext |-> "json"]
\* stats-1000-swift-driver-ModA-in.swift-x86_64-obj-Onone-4242-extra.json
FileNameDriver ==
    [fields |-> <<"stats", "1000", "swift", "driver">> \o AuxA
                    \o <<"4242", "extra">>,
     ext |-> "json"]
\* stats-1000-clang-frontend-ModA-in.swift-x86_64-obj-Onone-4242.json
FileNameClang ==
    [fields |-> <<"stats", "1000", "clang", "frontend">> \o AuxA \o <<"4242">>,
     ext |-> "json"]
FileNames == {FileNameA, FileNameB, FileNameDriver, FileNameClang}

\* 0.0, 0.0000015 and 0.002 seconds; the counter value 7.
TimeValues == {JsonFloat(0), JsonFloat(1500), JsonFloat(2000000)}
CountValues == {JsonInt(7)}
BodyKeys == {WallSwiftA, WallSwiftB, WallPlainA, UserSwiftA, NumInstructions}

\* The JSON objects of at most two keys.
Bodies ==
    UNION {{b \in [S -> TimeValues \cup CountValues] :
               \A k \in S : StartsWithTime(k) <=> b[k] \in TimeValues} :
           S \in {T \in SUBSET BodyKeys : Cardinality(T) <= 2}}

Files == {[fields |-> n.fields, ext |-> n.ext, body |-> b] :
             n \in FileNames, b \in Bodies}

InitLoad ==
    \E fs \in SeqsUpTo(Files, MaxFiles) : Idle(fs, <<>>, Absent)

\* jobstats = load_stats_dir(path)
LoadStatsDir ==
    /\ mode = "init"
    /\ \E js \in load_stats_dir(dir) : jobstats' = js /\ jobs' = js
    /\ mode' = "load"
    /\ UNCHANGED <<dir, merged, csvfile, before, d, call, ret, out, status>>

NextLoad == LoadStatsDir \/ MergeAllJobstats

SpecLoad == InitLoad /\ [][NextLoad]_vars

\* The files of dir that load_stats_dir recognizes, in walk order.
Recognized == SelectSeq(dir, MatchesFpat)

\* The name time.<kind>.<module>-<input>-<triple>-<out>-<opt>.wall composed
\* from the fields of file f's own name.
ComposedName(f) ==
    Name("time.", "", f.fields[4], SubSeq(f.fields, 5, 9), "wall")

\* C7 as stated: the duration of a recognized file's record is the converted
\* value of the key equal to ComposedName, and 1 when the file has no such key.
C7_Original ==
    mode = "load" =>
        \A i \in 1..Len(jobstats) :
            LET f == Recognized[i]
            IN  jobstats[i].dur_usec =
                    IF ComposedName(f) \in DOMAIN f.body
                    THEN ToUsec(f.body[ComposedName(f)]) ELSE 1

\* The keys of f of the form time.swift-<kind>.<a>-<b>-<c>-<d>-<e>.wall, with
\* the kind of f's name and any five fields.
WallKeysOfKind(f) ==
    {k \in DOMAIN f.body :
        /\ k.pre = "time." /\ k.tool = "swift-" /\ k.suf = "wall"
        /\ k.kind = f.fields[4]
        /\ Len(k.aux) = 5}

\* C7 amended: the record of a recognized file has the kind and module of the
\* file's name; its duration is the converted value of one of the file's keys
\* of the form time.swift-<kind>.<five fields>.wall, whatever the five fields
\* are, and 1 when the file has no such key.
C7_DurationFromSwiftWallKey ==
    mode = "load" =>
        \A i \in 1..Len(jobstats) :
            LET f == Recognized[i]
                e == jobstats[i]
            IN  /\ e.jobkind = f.fields[4]
                /\ e.module = f.fields[5]
                /\ WallKeysOfKind(f) = {} => e.dur_usec = 1
                /\ WallKeysOfKind(f) # {} =>
                      \E k \in WallKeysOfKind(f) :
                          e.dur_usec = TruncDiv(f.body[k].n, 1000)

\* File A loaded with the single key
\* time.swift-frontend.ModA-in.swift-x86_64-obj-Onone.wall = 0.002.
C7_Witness ==
    /\ mode = "load"
    /\ Len(dir) = 1
    /\ dir[1].fields = FileNameA.fields
    /\ dir[1].body = (WallSwiftA :> JsonFloat(2000000))
    /\ jobstats[1].dur_usec = 2000
    /\ jobstats[1].jobkind = "frontend"
    /\ jobstats[1].module = "ModA"

\* C8: every job record has dur_usec >= 1, as loaded and after any merge.
C8_DurationAtLeastOne ==
    /\ \A i \in 1..Len(jobstats) : jobstats[i].dur_usec >= 1
    /\ merged # None => merged.dur_usec >= 1

----------------------------------------------------------------------------
(* The comparator and the baseline store *)

Sign(x) == IF x > 0 THEN 1 ELSE IF x < 0 THEN -1 ELSE 0

\* round(n / m, 0) for m # 0, halves rounded away from zero as Python 2 does.
RoundDiv(n, m) == Sign(n) * Sign(m) * ((2 * Abs(n) + Abs(m)) \div (2 * Abs(m)))

Pct100 == 10000

\* A variant of diff_and_pct that takes the percentage of the new value.
diff_and_pct_of_new(old, new) ==
    IF old = 0
    THEN IF new = 0 THEN <<0, 0>> ELSE <<new, Pct100>>
    ELSE <<new - old, IF new = 0 THEN Pct100 ELSE RoundDiv(Pct100 * (new - old), new)>>

\* diff_and_pct: <<delta, delta_pct>>, delta_pct in hundredths of a percent
\* (round(x, 2) keeps two decimals), so 100.0 is 10000.
diff_and_pct(old, new) ==
    IF old = 0
    THEN IF new = 0 THEN <<0, 0>> ELSE <<new, Pct100>>
    ELSE LET delta == new - old
         IN  <<delta, RoundDiv(Pct100 * delta, old)>>

\* A variant of update_epoch_value that takes the incoming epoch whenever the
\* stored one is not newer.
update_epoch_value_bump(dict, name, epoch, value) ==
    LET present == name \in DOMAIN dict
        keep == present /\ dict[name][1] > epoch
        e == IF keep THEN dict[name][1] ELSE epoch
        v == IF keep THEN dict[name][2] ELSE value
    IN  [d |-> [n \in DOMAIN dict \cup {name} |->
                   IF n = name THEN <<e, v>> ELSE dict[n]],
         epoch |-> e, value |-> v,
         changed |-> IF present /\ ~keep /\ dict[name][2] # value THEN 1 ELSE 0]

\* A variant of update_epoch_value that lets an older epoch overwrite.
update_epoch_value_overwrite(dict, name, epoch, value) ==
    LET present == name \in DOMAIN dict
        same == present /\ dict[name][2] = value
        e == IF same THEN dict[name][1] ELSE epoch
    IN  [d |-> [n \in DOMAIN dict \cup {name} |->
                   IF n = name THEN <<e, value>> ELSE dict[n]],
         epoch |-> e, value |-> value,
         changed |-> IF present /\ ~same THEN 1 ELSE 0]

\* update_epoch_value: the dict after the call and the returned triple.
update_epoch_value(dict, name, epoch, value) ==
    LET present == name \in DOMAIN dict
        existing_epoch == dict[name][1]
        existing_value == dict[name][2]
        r == IF ~present THEN <<epoch, value, 0>>
             ELSE IF existing_epoch > epoch
                  THEN <<existing_epoch, existing_value, 0>>
             ELSE IF existing_value = value
                  THEN <<existing_epoch, value, 0>>
             ELSE <<epoch, value, 1>>
    IN  [d |-> [n \in DOMAIN dict \cup {name} |->
                   IF n = name THEN <<r[1], r[2]>> ELSE dict[n]],
         epoch |-> r[1], value |-> r[2], changed |-> r[3]]

\* The loop of read_stats_dict_from_csv over rows <<epoch, name, value>>.
RECURSIVE ReadLoop(_, _)
ReadLoop(dict, rows) ==
    IF rows = <<>> THEN dict
    ELSE LET row == Head(rows)
         IN  ReadLoop(update_epoch_value(dict, row[2], row[1], row[3]).d,
                      Tail(rows))

read_stats_dict_from_csv(f) == ReadLoop(EmptyDict, f)

----------------------------------------------------------------------------
(* Specification SpecDiff: diff_and_pct on pairs of values *)

MaxSmall == 5
DiffValues == (-MaxSmall..MaxSmall) \cup {100, 150, 20000, 20001, 20002}

InitDiff ==
    /\ Idle(<<>>, <<>>, Absent)

\* ret = diff_and_pct(old, new)
DiffAndPct ==
    /\ \E old, new \in DiffValues :
          /\ call' = [old |-> old, new |-> new]
          /\ ret' = diff_and_pct(old, new)
    /\ mode' = "diff"
    /\ UNCHANGED <<dir, jobstats, merged, jobs, csvfile, before, d, out, status>>

NextDiff == DiffAndPct

SpecDiff == InitDiff /\ [][NextDiff]_vars

\* p is 100 * delta / old rounded to two decimals, in hundredths of a percent.
IsRoundedPct(p, delta, old) ==
    LET err == Abs(Pct100 * delta - p * old)
    IN  /\ 2 * err <= Abs(old)
        /\ 2 * err = Abs(old) => Abs(p * old) > Abs(Pct100 * delta)

DiffValuesAsStated ==
    /\ (call.old = 0 /\ call.new = 0) => ret = <<0, 0>>
    /\ (call.old = 0 /\ call.new # 0) => ret = <<call.new, Pct100>>
    /\ call.old # 0 =>
          /\ ret[1] = call.new - call.old
          /\ IsRoundedPct(ret[2], ret[1], call.old)
    /\ (call.old = 0 /\ call.new = 5) => ret = <<5, 10000>>
    /\ (call.old = 100 /\ call.new = 150) => ret = <<50, 5000>>

\* C9 as stated: the three cases of diff_and_pct, and delta_pct has the sign
\* of delta whenever old > 0.
C9_Original ==
    mode = "diff" =>
        /\ DiffValuesAsStated
        /\ call.old > 0 => Sign(ret[2]) = Sign(ret[1])

\* C9 amended: the three cases of diff_and_pct, and for old > 0 delta_pct
\* never has the sign opposite to delta's (it is 0.0 when delta is 0 or the
\* quotient rounds to 0.00).
C9_DiffAndPct ==
    mode = "diff" =>
        /\ DiffValuesAsStated
        /\ call.old > 0 =>
              /\ Sign(ret[2]) \in {Sign(ret[1]), 0}
              /\ ret[1] = 0 => ret[2] = 0

\* diff_and_pct(20001, 20002): delta = 1 and delta_pct = round(0.004999.., 2) = 0.0
C9_Witness ==
    /\ mode = "diff"
    /\ call.old = 20001 /\ call.new = 20002
    /\ ret = <<1, 0>>

----------------------------------------------------------------------------
(* Specifications SpecRead and SpecUpdate: the baseline store *)

MaxRows == 3
MaxEpoch == 3
MaxValue == 2

StoreNames == {NumInstructions, WallSwiftA}
Rows == {<<e, n, v>> : e \in 1..MaxEpoch, n \in StoreNames, v \in 1..MaxValue}
CsvFiles == SeqsUpTo(Rows, MaxRows)

InitRead == \E f \in CsvFiles : Idle(<<>>, <<>>, File(f))

\* d = read_stats_dict_from_csv(f)
ReadStatsDictFromCsv ==
    /\ mode = "init"
    /\ csvfile.exists
    /\ d' = read_stats_dict_from_csv(csvfile.rows)
    /\ mode' = "read"
    /\ UNCHANGED <<dir, jobstats, merged, jobs, csvfile, before, call, ret, out, status>>

NextRead == ReadStatsDictFromCsv

SpecRead == InitRead /\ [][NextRead]_vars

\* C2: after read_stats_dict_from_csv, every name of the file maps to the
\* (epoch, value) of one of its rows whose epoch is the greatest among the
\* rows of that name.
C2_ReaderTakesLaterEpoch ==
    mode = "read" =>
        LET rows == csvfile.rows
        IN  \A n \in {rows[i][2] : i \in DOMAIN rows} :
                \E i \in DOMAIN rows :
                    /\ rows[i][2] = n
                    /\ \A j \in DOMAIN rows : rows[j][2] = n => rows[j][1] <= rows[i][1]
                    /\ d[n] = <<rows[i][1], rows[i][3]>>

\* The dicts the reader can return.
StoreDicts == {read_stats_dict_from_csv(f) : f \in CsvFiles}

InitUpdate ==
    \E dict \in StoreDicts :
        /\ mode = "init"
        /\ dir = <<>> /\ jobstats = <<>> /\ jobs = <<>> /\ merged = None
        /\ csvfile = Absent /\ before = NoDict /\ d = dict
        /\ call = None /\ ret = None /\ out = <<>> /\ status = "ok"

\* (epoch, value, changed) = update_epoch_value(d, name, epoch, value)
UpdateEpochValue ==
    /\ \E name \in StoreNames, epoch \in 1..MaxEpoch, value \in 1..MaxValue :
          LET r == update_epoch_value(d, name, epoch, value)
          IN  /\ d' = r.d
              /\ ret' = <<r.epoch, r.value, r.changed>>
              /\ call' = [name |-> name, epoch |-> epoch, value |-> value,
                          present |-> name \in DOMAIN d,
                          old |-> IF name \in DOMAIN d THEN d[name] ELSE <<0, 0>>]
    /\ mode' = "update"
    /\ UNCHANGED <<dir, jobstats, merged, jobs, csvfile, before, out, status>>

NextUpdate == UpdateEpochValue

SpecUpdate == InitUpdate /\ [][NextUpdate]_vars

\* C4: a call for a name stored with an epoch strictly greater than the
\* incoming one leaves the stored pair as it was, returns it, and returns
\* changed = 0, whatever the incoming value.
C4_OlderEpochKeepsEntry ==
    (mode = "update" /\ call.present /\ call.old[1] > call.epoch) =>
        /\ d[call.name] = call.old
        /\ ret = <<call.old[1], call.old[2], 0>>

\* An older epoch arrives with a different value.
C4_Witness ==
    /\ mode = "update"
    /\ call.present
    /\ call.old[1] > call.epoch
    /\ call.old[2] # call.value
    /\ ret[3] = 0

\* C5: a call with the stored value and an epoch not older than the stored
\* one keeps the stored epoch and returns changed = 0; changed = 1 is returned
\* only for a present name whose stored epoch is not newer and whose value
\* differs, and then the entry becomes (new epoch, new value).
C5_SameValueKeepsEpoch ==
    mode = "update" =>
        /\ (call.present /\ call.old[2] = call.value /\ call.epoch >= call.old[1]) =>
              /\ d[call.name] = call.old
              /\ ret[1] = call.old[1]
              /\ ret[3] = 0
        /\ ret[3] \in {0, 1}
        /\ ret[3] = 1 =>
              /\ call.present
              /\ call.old[1] <= call.epoch
              /\ call.old[2] # call.value
              /\ d[call.name] = <<call.epoch, call.value>>

\* The stored value arrives again with a strictly newer epoch.
C5_Witness ==
    /\ mode = "update"
    /\ call.present
    /\ call.old[2] = call.value
    /\ call.epoch > call.old[1]
    /\ d[call.name][1] = call.old[1]

----------------------------------------------------------------------------
(* The operations main() dispatches to *)

\* The stat names of the model in the order sorted() puts their strings.
NameOrder == <<NumDriverJobsRun, NumDriverJobsSkipped, NumInstructions,
               WallPlainA, UserSwiftA, WallSwiftA, WallSwiftB>>

\* sorted(S) for a set S of stat names
Sorted(S) == SelectSeq(NameOrder, LAMBDA n : n \in S)

\* The loop of set_csv_baseline over sorted(m.stats.keys()); acc holds the
\* dict existing (NoDict when the file did not exist), the rows written so
\* far and the count of changed entries.
RECURSIVE SetLoop(_, _, _, _)
SetLoop(names, stats, newepoch, acc) ==
    IF names = <<>> THEN acc
    ELSE LET name == Head(names)
             rest == Tail(names)
         IN  IF ~acc.existing.some
             THEN SetLoop(rest, stats, newepoch,
                      [acc EXCEPT !.rows = Append(@, <<newepoch, name, stats[name]>>)])
             ELSE IF name \notin DOMAIN acc.existing.dict
             THEN SetLoop(rest, stats, newepoch, acc)
             ELSE LET r == update_epoch_value(acc.existing.dict, name, newepoch,
                                              stats[name])
                  IN  SetLoop(rest, stats, newepoch,
                          [existing |-> SomeDict(r.d),
                           rows |-> Append(acc.rows, <<r.epoch, name, r.value>>),
                           changed |-> acc.changed + r.changed])

\* set_csv_baseline, from the open(..., "wb") that empties the file on
\* (int(epoch) and int(value) leave the integers of the model as they are);
\* m is the result of merge_all_jobstats. m.stats raises AttributeError
\* when m is None, and the file stays as open() left it.
set_csv_baseline(existing, m, newepoch) ==
    IF m = None
    THEN [status |-> "AttributeError", file |-> File(<<>>), ret |-> None]
    ELSE LET r == SetLoop(Sorted(DOMAIN m.stats), m.stats, newepoch,
                          [existing |-> existing, rows |-> <<>>, changed |-> 0])
         IN  [status |-> "ok", file |-> File(r.rows), ret |-> 0]

\* A variant of the comparison loop that applies the absolute threshold to
\* every stat, not only to the "time." ones.
RECURSIVE CompareLoopAllAbs(_, _, _, _, _)
CompareLoopAllAbs(names, old_stats, new_stats, args, acc) ==
    IF names = <<>> THEN acc
    ELSE LET stat_name == Head(names)
             old == old_stats[stat_name][2]
             new == IF stat_name \in DOMAIN new_stats THEN new_stats[stat_name]
                    ELSE 0
             dp == diff_and_pct(old, new)
         IN  IF Abs(dp[1]) < args.delta_usec_thresh
                   \/ Abs(dp[2]) < args.delta_pct_thresh
             THEN CompareLoopAllAbs(Tail(names), old_stats, new_stats, args, acc)
             ELSE CompareLoopAllAbs(Tail(names), old_stats, new_stats, args,
                      [rows |-> Append(acc.rows,
                                       [name |-> stat_name, old |-> old,
                                        new |-> new, delta_pct |-> dp[2]]),
                       regressions |-> acc.regressions
                                         + (IF dp[1] > 0 THEN 1 ELSE 0)])

\* The loop of compare_to_csv_baseline over sorted(old_stats.keys()); acc
\* holds the rows written so far and the count of regressions.
RECURSIVE CompareLoop(_, _, _, _, _)
CompareLoop(names, old_stats, new_stats, args, acc) ==
    IF names = <<>> THEN acc
    ELSE LET stat_name == Head(names)
             old == old_stats[stat_name][2]
             new == IF stat_name \in DOMAIN new_stats THEN new_stats[stat_name]
                    ELSE 0
             dp == diff_and_pct(old, new)
             delta == dp[1]
             delta_pct == dp[2]
         IN  IF StartsWithTime(stat_name) /\ Abs(delta) < args.delta_usec_thresh
             THEN CompareLoop(Tail(names), old_stats, new_stats, args, acc)
             ELSE IF Abs(delta_pct) < args.delta_pct_thresh
             THEN CompareLoop(Tail(names), old_stats, new_stats, args, acc)
             ELSE CompareLoop(Tail(names), old_stats, new_stats, args,
                      [rows |-> Append(acc.rows,
                                       [name |-> stat_name, old |-> old,
                                        new |-> new, delta_pct |-> delta_pct]),
                       regressions |-> acc.regressions
                                         + (IF delta > 0 THEN 1 ELSE 0)])

\* compare_to_csv_baseline; m.stats raises AttributeError when m is None,
\* before anything is written.
compare_to_csv_baseline(old_stats, m, args) ==
    IF m = None
    THEN [status |-> "AttributeError", rows |-> <<>>, ret |-> None]
    ELSE LET r == CompareLoop(Sorted(DOMAIN old_stats), old_stats, m.stats, args,
                              [rows |-> <<>>, regressions |-> 0])
         IN  [status |-> "ok", rows |-> r.rows, ret |-> r.regressions]

\* JobStats.incrementality_percentage, in hundredths of a percent; the
\* division raises ZeroDivisionError when the driver ran and skipped no job.
driver_jobs_ran(j) ==
    IF NumDriverJobsRun \in DOMAIN j.stats THEN j.stats[NumDriverJobsRun] ELSE 0
driver_jobs_skipped(j) ==
    IF NumDriverJobsSkipped \in DOMAIN j.stats THEN j.stats[NumDriverJobsSkipped]
    ELSE 0
driver_jobs_total(j) == driver_jobs_ran(j) + driver_jobs_skipped(j)
incrementality_percentage(j) ==
    RoundDiv(Pct100 * driver_jobs_ran(j), driver_jobs_total(j))

is_driver_job(j) == j.jobkind = "driver"

\* The body of the loop of show_paired_incrementality for one pair of stats
\* lists, given the two merged driver records.
show_paired_incrementality(olddriver, newdriver) ==
    IF olddriver = None \/ newdriver = None
    THEN [status |-> "ok", rows |-> <<>>]
    ELSE IF driver_jobs_total(olddriver) = 0 \/ driver_jobs_total(newdriver) = 0
    THEN [status |-> "ZeroDivisionError", rows |-> <<>>]
    ELSE LET oldpct == incrementality_percentage(olddriver)
             newpct == incrementality_percentage(newdriver)
             oldskip == driver_jobs_skipped(olddriver)
             newskip == driver_jobs_skipped(newdriver)
         IN  [status |-> "ok",
              rows |-> <<[old_pct |-> oldpct, old_skip |-> oldskip,
                          new_pct |-> newpct, new_skip |-> newskip,
                          delta_pct |-> newpct - oldpct,
                          delta_skip |-> newskip - oldskip]>>]

\* write_lnt_values for one stats dir without --lnt-submit: the "Tests" of
\* to_lnt_test_obj as (module, stat, data), listed in sorted order; the
\* metric suffix of a test's name is left out. merged.to_lnt_test_obj raises
\* AttributeError when merged is None.
write_lnt_values(m) ==
    IF m = None
    THEN [status |-> "AttributeError", rows |-> <<>>]
    ELSE LET names == Sorted(DOMAIN m.stats)
         IN  [status |-> "ok",
              rows |-> [i \in 1..Len(names) |->
                           [module |-> m.module, name |-> names[i],
                            data |-> m.stats[names[i]]]]]

----------------------------------------------------------------------------
(* Specification SpecTool: one run of the tool on a stats dir and a baseline *)

MaxToolRows == 2

DefaultUsecThresh == 100000
DefaultPctThresh == 1

ToolRecords ==
    {JobStats("frontend", 4242, "ModA", 1000, 2000, Tail(AuxA),
              (WallSwiftA :> a) @@ (NumInstructions :> b)) :
        a \in {100, 150}, b \in {0, 150}}

ToolRows ==
    {<<e, n, v>> : e \in {1, 3}, n \in {NumInstructions, UserSwiftA, WallSwiftA},
                   v \in {0, 100}}

InitTool ==
    \E js \in SeqsUpTo(ToolRecords, 2),
       f \in {File(rows) : rows \in SeqsUpTo(ToolRows, MaxToolRows)} \cup {Absent} :
        Idle(<<>>, js, f)

\* --set-csv-baseline FILE: set_csv_baseline(args), at time newepoch
SetCsvBaseline ==
    /\ mode = "init"
    /\ \E m \in MergeOutcomes(jobstats), newepoch \in {2} :
          LET existing == IF ~csvfile.exists THEN NoDict
                          ELSE SomeDict(read_stats_dict_from_csv(csvfile.rows))
              r == set_csv_baseline(existing, m, newepoch)
          IN  /\ before' = existing
              /\ merged' = m
              /\ csvfile' = r.file
              /\ ret' = r.ret
              /\ status' = r.status
              /\ call' = [newepoch |-> newepoch]
    /\ mode' = "set"
    /\ UNCHANGED <<dir, jobstats, jobs, d, out>>

\* --compare-to-csv-baseline FILE: compare_to_csv_baseline(args); argparse
\* has opened the file, so it exists.
CompareToCsvBaseline ==
    /\ mode = "init"
    /\ csvfile.exists
    /\ \E m \in MergeOutcomes(jobstats),
          usec \in {10, DefaultUsecThresh}, pct \in {DefaultPctThresh, 5001} :
          LET args == [delta_usec_thresh |-> usec, delta_pct_thresh |-> pct]
              old_stats == read_stats_dict_from_csv(csvfile.rows)
              r == compare_to_csv_baseline(old_stats, m, args)
          IN  /\ before' = SomeDict(old_stats)
              /\ merged' = m
              /\ out' = r.rows
              /\ ret' = r.ret
              /\ status' = r.status
              /\ call' = args
    /\ mode' = "compare"
    /\ UNCHANGED <<dir, jobstats, jobs, csvfile, d>>

NextTool == SetCsvBaseline \/ CompareToCsvBaseline

SpecTool == InitTool /\ [][NextTool]_vars

\* The names of the rows of the baseline file, in file order.
FileNamesOf(f) == [i \in DOMAIN f.rows |-> f.rows[i][2]]

\* C3: set_csv_baseline on an existing baseline file deletes no entry: the
\* rewritten file holds one row for every name the baseline held before,
\* also for the names the current run has no stat for, sorted by name.
C3_BaselineEntriesKept ==
    (mode = "set" /\ before.some /\ status = "ok") =>
        FileNamesOf(csvfile) = Sorted(DOMAIN before.dict)

\* The stats of the new run that compare_to_csv_baseline reads, 0 when absent.
NewValue(n) == IF n \in DOMAIN merged.stats THEN merged.stats[n] ELSE 0

\* The baseline name n passes both filters under the thresholds of the call.
PassesFilters(n) ==
    LET dp == diff_and_pct(before.dict[n][2], NewValue(n))
    IN  /\ ~(n.pre = "time." /\ Abs(dp[1]) < call.delta_usec_thresh)
        /\ ~(Abs(dp[2]) < call.delta_pct_thresh)

\* C6: compare_to_csv_baseline returns the number of names of the old
\* baseline that pass both filters and have delta > 0, and writes one row
\* for each name that passes both filters, whatever the sign of delta; names
\* only in the new run are ignored and a name absent from it counts as 0.
C6_RegressionCount ==
    (mode = "compare" /\ status = "ok") =>
        LET passing == {n \in DOMAIN before.dict : PassesFilters(n)}
        IN  /\ ret = Cardinality({n \in passing :
                         NewValue(n) - before.dict[n][2] > 0})
            /\ Len(out) = Cardinality(passing)
            /\ {out[i].name : i \in DOMAIN out} = passing
            /\ \A i \in DOMAIN out :
                   /\ out[i].old = before.dict[out[i].name][2]
                   /\ out[i].new = NewValue(out[i].name)

\* A baseline of a time stat whose delta is under the absolute threshold and
\* of a counter that regressed from 0.
C6_Witness ==
    /\ mode = "compare"
    /\ status = "ok"
    /\ DOMAIN before.dict = {NumInstructions, WallSwiftA}
    /\ before.dict[WallSwiftA][2] = 100 /\ NewValue(WallSwiftA) = 150
    /\ call.delta_usec_thresh = DefaultUsecThresh
    /\ before.dict[NumInstructions][2] = 0 /\ NewValue(NumInstructions) = 150
    /\ ret = 1
    /\ Len(out) = 1

\* C10: merge_all_jobstats gives None for no record and the record itself
\* for one; no caller uses a missing record, and set_csv_baseline run on no
\* record leaves an existing baseline file with the entries it had.
C10_CallersGuardNoRecord ==
    /\ (mode \in {"set", "compare"} /\ Len(jobstats) = 0) => merged = None
    /\ (mode \in {"set", "compare"} /\ Len(jobstats) = 1) => merged = jobstats[1]
    /\ status # "AttributeError"
    /\ (mode = "set" /\ jobstats = <<>> /\ before.some) =>
          read_stats_dict_from_csv(csvfile.rows) = before.dict

----------------------------------------------------------------------------
(* Specification SpecReport: the reports that read no baseline file *)

MaxReportJobs == 2

ReportRecords ==
    ToolRecords \cup
    {JobStats("driver", 77, "ModA", 1000, 1, Tail(AuxA),
              (NumDriverJobsRun :> 8) @@ (NumDriverJobsSkipped :> 2)),
     JobStats("driver", 78, "ModA", 2000, 1, Tail(AuxA),
              (NumDriverJobsRun :> 1) @@ (NumDriverJobsSkipped :> 2)),
     JobStats("driver", 79, "ModA", 1000, 1, Tail(AuxA), EmptyDict)}

InitReport ==
    \E js \in SeqsUpTo(ReportRecords, MaxReportJobs) : Idle(<<>>, js, Absent)

\* --lnt: write_lnt_values(args)
WriteLntValues ==
    /\ mode = "init"
    /\ \E m \in MergeOutcomes(jobstats) :
          LET r == write_lnt_values(m)
          IN  /\ merged' = m
              /\ out' = r.rows
              /\ status' = r.status
    /\ mode' = "lnt"
    /\ UNCHANGED <<dir, jobstats, jobs, csvfile, before, d, call, ret>>

\* --incrementality --paired: show_paired_incrementality(args) for one pair
\* of subdirs; load_paired_stats_dirs keeps a pair only when both sides
\* hold at least one record. jobstats is the new side.
ShowPairedIncrementality ==
    /\ mode = "init"
    /\ jobstats # <<>>
    /\ \E oldstats \in SeqsUpTo(ReportRecords, MaxReportJobs) \ {<<>>} :
        \E olddriver \in MergeOutcomes(SelectSeq(oldstats, is_driver_job)),
           newdriver \in MergeOutcomes(SelectSeq(jobstats, is_driver_job)) :
          LET r == show_paired_incrementality(olddriver, newdriver)
          IN  /\ call' = [oldstats |-> oldstats]
              /\ merged' = newdriver
              /\ out' = r.rows
              /\ status' = r.status
    /\ mode' = "paired"
    /\ UNCHANGED <<dir, jobstats, jobs, csvfile, before, d, ret>>

NextReport == WriteLntValues \/ ShowPairedIncrementality

SpecReport == InitReport /\ [][NextReport]_vars

====
